---- MODULE Spec2Model ----
(***************************************************************************)
(* Model of utilities.py of map-sandbox: the region expander               *)
(* get_state_abbreviations_from_region and the spatial filter              *)
(* filter_by_states / filter_by_regions_gdf.                               *)
(*                                                                         *)
(* Both are pure functions.  A behaviour draws the arguments of one call   *)
(* in its initial state and the actions apply the function to them.        *)
(***************************************************************************)
EXTENDS Bags, FiniteSets, Integers, Sequences, TLC

VARIABLES
    pc,             \* the call to make next, or the one that has returned
    region_names,   \* argument of get_state_abbreviations_from_region
    result,         \* its return value: a list, kept as a bag (order is unspecified)
    geodataframe,   \* argument of the filter: the feature collection
    state_names,    \* argument of filter_by_states
    states_file,    \* content of shapefiles/tl_2023_us_state/tl_2023_us_state.shp
    regions_gdf,    \* boundary collection handed to filter_by_regions_gdf
    filtered,       \* return value of the filter
    refiltered,     \* return value of the filter applied to its own result
    error           \* exception raised by the call, "none" when it returned

vars == <<pc, region_names, result, geodataframe, state_names, states_file,
          regions_gdf, filtered, refiltered, error>>

(***************************************************************************)
(* Bounds of the model.                                                    *)
(***************************************************************************)
MaxNames == 2       \* longest list of region names passed to the expander
MaxFeatures == 2    \* most rows of an input feature collection

(***************************************************************************)
(* Strings.  A name is a TLA+ string; str.lower() is computed character by *)
(* character.                                                              *)
(***************************************************************************)
ascii_uppercase == "ABCDEFGHIJKLMNOPQRSTUVWXYZ"
ascii_lowercase == "abcdefghijklmnopqrstuvwxyz"

CharAt(s, i) == SubSeq(s, i, i)

\* The lower-case letter of every upper-case letter.
LowerOf ==
    [c \in {CharAt(ascii_uppercase, i) : i \in 1..Len(ascii_uppercase)} |->
        CharAt(ascii_lowercase,
               CHOOSE i \in 1..Len(ascii_uppercase) : CharAt(ascii_uppercase, i) = c)]

LowerChar(c) == IF c \in DOMAIN LowerOf THEN LowerOf[c] ELSE c

RECURSIVE lower(_)
lower(s) ==
    IF Len(s) = 0 THEN ""
    ELSE LowerChar(CharAt(s, 1)) \o lower(SubSeq(s, 2, Len(s)))

Range(f) == {f[x] : x \in DOMAIN f}

(***************************************************************************)
(* The region table, keys written exactly as in the source.                *)
(***************************************************************************)
regions ==
    "northeast" :> (
        "new england" :> <<"CT", "ME", "MA", "NH", "RI", "VT">> @@
        "mid-atlantic" :> <<"NJ", "NY", "PA">>) @@
    "midwest" :> (
        "east north central" :> <<"IL", "IN", "MI", "OH", "WI">> @@
        "west north central" :> <<"IA", "KS", "MN", "MO", "NE", "ND", "SD">> @@
        "upper midwest" :> <<"MN", "WI", "IA", "ND", "SD">>) @@
    "South" :> (
        "south atlantic" :> <<"DE", "FL", "GA", "MD", "NC", "SC", "VA", "DC", "WV">> @@
        "east south central" :> <<"AL", "KY", "MS", "TN">> @@
        "west south central" :> <<"AR", "LA", "OK", "TX">> @@
        "deep south" :> <<"AL", "GA", "LA", "MS", "SC">>) @@
    "west" :> (
        "mountain" :> <<"AZ", "CO", "ID", "MT", "NV", "NM", "UT", "WY">> @@
        "pacific" :> <<"AK", "CA", "HI", "OR", "WA">> @@
        "pacific northwest" :> <<"OR", "WA", "ID">> @@
        "southwest" :> <<"AZ", "NM", "OK", "TX">>)

(***************************************************************************)
(* get_state_abbreviations_from_region                                     *)
(***************************************************************************)
\* An argument typed "str | List[str]" is a record with the one field str
\* or the one field list.
Str(s) == [str |-> s]
List(l) == [list |-> l]

\* if isinstance(names, str): names = [names]
AsList(names) == IF "str" \in DOMAIN names THEN <<names.str>> ELSE names.list

\* Faulty variant of MacroAbbreviations: the lower-cased name matches every
\* macro-region key it is a prefix of (startswith instead of a dict lookup).
MacroAbbreviationsStartswith(region_name) ==
    LET key == lower(region_name) IN
    UNION {IF Len(key) <= Len(k) /\ SubSeq(k, 1, Len(key)) = key
           THEN UNION {Range(regions[k][subregion]) : subregion \in DOMAIN regions[k]}
           ELSE {} : k \in DOMAIN regions}

\* Lines 45-52: the name, lower-cased, looked up among the macro-region keys.
MacroAbbreviations(region_name) ==
    LET key == lower(region_name) IN
    IF key \in DOMAIN regions
    THEN UNION {Range(regions[key][subregion]) : subregion \in DOMAIN regions[key]}
    ELSE {}

\* Faulty variant of SubregionAbbreviations: a macro-region that holds the
\* subregion contributes all of its subregions.
SubregionAbbreviationsWholeRegion(region_name) ==
    LET key == lower(region_name) IN
    UNION {IF key \in DOMAIN regions[main_region]
           THEN UNION {Range(regions[main_region][sub]) : sub \in DOMAIN regions[main_region]}
           ELSE {} : main_region \in DOMAIN regions}

\* Lines 54-56: the name, lower-cased, looked up among every macro-region's
\* subregion keys.
SubregionAbbreviations(region_name) ==
    LET key == lower(region_name) IN
    UNION {IF key \in DOMAIN regions[main_region]
           THEN Range(regions[main_region][key])
           ELSE {} : main_region \in DOMAIN regions}

\* The loop of lines 44-56 over the list, the set `result` threaded through.
RECURSIVE ExpandLoop(_, _)
ExpandLoop(names, acc) ==
    IF names = <<>> THEN acc
    ELSE ExpandLoop(Tail(names),
                    (acc \cup MacroAbbreviations(Head(names)))
                        \cup SubregionAbbreviations(Head(names)))

\* The returned list(result), as the bag of its elements.
get_state_abbreviations_from_region(names) ==
    SetToBag(ExpandLoop(AsList(names), {}))

(***************************************************************************)
(* GeoDataFrames.  A frame is a record [crs, columns, rows]; a row is a    *)
(* record [index, geometry, cols], cols a function over the frame's        *)
(* columns.  A geometry is the set of integer positions it covers on a     *)
(* line, written in the frame's coordinate reference system.               *)
(***************************************************************************)
\* Each CRS writes a location with its own offset, so that coordinates of
\* two frames compare only after reprojection.
FalseEasting == "EPSG:4269" :> 0 @@ "EPSG:4326" :> 10 @@ "EPSG:3857" :> 20

Transform(p, from_crs, to_crs_) == (p - FalseEasting[from_crs]) + FalseEasting[to_crs_]

\* Faulty variant of to_crs: the CRS tag is replaced and the coordinates
\* are left as they were (set_crs with allow_override in place of to_crs).
set_crs_override(frame, crs) == [frame EXCEPT !.crs = crs]

\* GeoDataFrame.to_crs: every geometry rewritten in the target CRS.
to_crs(frame, crs) ==
    [crs |-> crs,
     columns |-> frame.columns,
     rows |-> [i \in DOMAIN frame.rows |->
                  [frame.rows[i] EXCEPT
                      !.geometry = {Transform(p, frame.crs, crs) : p \in @}]]]

\* Faulty variant of intersects: the predicate "within".
within(g, h) == g # {} /\ g \subseteq h

\* The "intersects" predicate: the geometries share at least one point.
\* Coordinates are compared as written; sjoin does not reproject.
intersects(g, h) == g \cap h # {}

\* Column names of the joined frame: a name present on both sides gets the
\* suffixes _left and _right, the right index arrives as index_right.
LeftName(c, right) == IF c \in right.columns THEN c \o "_left" ELSE c
RightName(c, left) == IF c \in left.columns THEN c \o "_right" ELSE c

JoinColumns(left, right) ==
    ({LeftName(c, right) : c \in left.columns} \cup {"index_right"})
        \cup {RightName(c, left) : c \in right.columns}

JoinedRow(left, right, lrow, rrow) ==
    [index |-> lrow.index,
     geometry |-> lrow.geometry,
     cols |-> [c \in JoinColumns(left, right) |->
                 IF c = "index_right" THEN rrow.index
                 ELSE IF \E lc \in left.columns : LeftName(lc, right) = c
                      THEN lrow.cols[CHOOSE lc \in left.columns : LeftName(lc, right) = c]
                      ELSE rrow.cols[CHOOSE rc \in right.columns : RightName(rc, left) = c]]]

\* Faulty variant of PairsOf: how="left", a left row without a match is
\* kept, its right-hand columns filled with NaN.
PairsOfLeftJoin(left, right, lrow) ==
    LET hits == SelectSeq(right.rows,
                          LAMBDA rrow : intersects(lrow.geometry, rrow.geometry))
        nan == [index |-> "NaN", geometry |-> {},
                cols |-> [c \in right.columns |-> "NaN"]]
    IN IF hits = <<>> THEN <<JoinedRow(left, right, lrow, nan)>>
       ELSE [j \in 1..Len(hits) |-> JoinedRow(left, right, lrow, hits[j])]

\* The rows one left row yields: one per right row it intersects.
PairsOf(left, right, lrow) ==
    LET hits == SelectSeq(right.rows,
                          LAMBDA rrow : intersects(lrow.geometry, rrow.geometry))
    IN [j \in 1..Len(hits) |-> JoinedRow(left, right, lrow, hits[j])]

RECURSIVE JoinRows(_, _, _)
JoinRows(left, right, i) ==
    IF i > Len(left.rows) THEN <<>>
    ELSE PairsOf(left, right, left.rows[i]) \o JoinRows(left, right, i + 1)

\* Faulty variant of sjoin: each left row is kept once, with the first
\* right row it intersects (the join followed by a drop of duplicates).
RECURSIVE JoinRowsOnce(_, _, _)
JoinRowsOnce(left, right, i) ==
    IF i > Len(left.rows) THEN <<>>
    ELSE LET pairs == PairsOf(left, right, left.rows[i]) IN
         (IF pairs = <<>> THEN <<>> ELSE <<pairs[1]>>)
            \o JoinRowsOnce(left, right, i + 1)

sjoin_drop_duplicates(left, right) ==
    [crs |-> left.crs,
     columns |-> JoinColumns(left, right),
     rows |-> JoinRowsOnce(left, right, 1)]

\* gpd.sjoin(left, right, how="inner", predicate="intersects")
sjoin(left, right) ==
    [crs |-> left.crs,
     columns |-> JoinColumns(left, right),
     rows |-> JoinRows(left, right, 1)]

NoFrame == [crs |-> "none", columns |-> {}, rows |-> <<>>]

\* DataFrame.drop(columns=...): KeyError when a named column is absent.
drop(frame, columns) ==
    IF columns \subseteq frame.columns
    THEN [error |-> "none",
          value |-> [crs |-> frame.crs,
                     columns |-> frame.columns \ columns,
                     rows |-> [i \in DOMAIN frame.rows |->
                                 [frame.rows[i] EXCEPT
                                     !.cols = [c \in frame.columns \ columns |-> @[c]]]]]]
    ELSE [error |-> "KeyError", value |-> NoFrame]

\* Lines 98-102.
filter_by_regions_gdf(gdf, filter_regions_gdf) ==
    LET reprojected == to_crs(filter_regions_gdf, gdf.crs)
        filtered_gdf == sjoin(gdf, reprojected)
    IN drop(filtered_gdf, {"index_right"})

\* Faulty variant of isin: membership up to letter case.
isin_nocase(value, values) == lower(value) \in {lower(v) : v \in Range(values)}

\* Series.isin(values): exact, case-sensitive membership.
isin(value, values) == value \in Range(values)

\* Line 82: the boolean mask keeps the matching rows, labels and order kept.
SelectStates(states_gdf, names) ==
    [states_gdf EXCEPT
        !.rows = SelectSeq(@, LAMBDA row : isin(row.cols["STUSPS"], names))]

\* Lines 74-84; states_gdf is what gpd.read_file returned.
filter_by_states(gdf, names, states_gdf) ==
    filter_by_regions_gdf(gdf, SelectStates(states_gdf, AsList(names)))

(***************************************************************************)
(* Arguments the calls are made with.                                      *)
(***************************************************************************)
\* Region names: macro-region and subregion names in several spellings, and
\* names the table does not hold.
MacroNames == {"Northeast", "Midwest", "South", "West"}

NamePool ==
    (MacroNames \cup {"northeast", "MIDWEST", "south", "SOUTH", "west"})
    \cup UNION {DOMAIN regions[m] : m \in DOMAIN regions}
    \cup {"Deep South", "PACIFIC NORTHWEST", "New England"}
    \cup {"", "ZZ", "north", "CA"}

RegionNameInputs ==
    {Str(name) : name \in NamePool}
    \cup {List(names) : names \in UNION {[1..n -> NamePool] : n \in 0..MaxNames}}

\* The state boundaries file: Oregon, California and Nevada along a line,
\* neighbours sharing their border point; positions 5 and up lie in no state.
tl_2023_us_state ==
    [crs |-> "EPSG:4269",
     columns |-> {"STUSPS", "NAME"},
     rows |-> << [index |-> 0, geometry |-> {0, 1},
                  cols |-> [STUSPS |-> "OR", NAME |-> "Oregon"]],
                 [index |-> 1, geometry |-> {1, 2, 3},
                  cols |-> [STUSPS |-> "CA", NAME |-> "California"]],
                 [index |-> 2, geometry |-> {3, 4},
                  cols |-> [STUSPS |-> "NV", NAME |-> "Nevada"]] >>]

\* Shapes of features, as positions on the ground: inside California, on
\* the California-Nevada border, across all three states, in no state, in
\* Nevada and beyond.
Shapes == {{2}, {3}, {1, 3}, {5}, {4, 5}}

FeatureCrs == {"EPSG:4269", "EPSG:4326", "EPSG:3857"}

FeatureGeometries(crs) == {{FalseEasting[crs] + p : p \in shape} : shape \in Shapes}

\* Attribute column of the features: one that the boundary file lacks, or
\* one that it has too.
FeatureColumns == {"NAME20", "NAME"}

FeatureFrame(crs, column, geometries) ==
    [crs |-> crs,
     columns |-> {column},
     rows |-> [i \in DOMAIN geometries |->
                  [index |-> i - 1,
                   geometry |-> geometries[i],
                   cols |-> (column :> ("UA" \o ToString(i)))]]]

FeatureFramesIn(crs) ==
    {FeatureFrame(crs, column, geometries) :
        column \in FeatureColumns,
        geometries \in UNION {[1..n -> FeatureGeometries(crs)] : n \in 0..MaxFeatures}}

FeatureFrames == UNION {FeatureFramesIn(crs) : crs \in FeatureCrs}

\* state_names: one abbreviation or a list; "ZZ" and "ca" are no postal
\* code of the file.
StateNameInputs ==
    {Str("CA"), Str("ZZ")}
    \cup {List(names) : names \in
            {<<>>, <<"CA">>, <<"NV">>, <<"OR">>, <<"ZZ">>, <<"ca">>,
             <<"CA", "NV">>, <<"CA", "ZZ">>, <<"ca", "NV">>, <<"ZZ", "ca">>,
             <<"OR", "CA", "NV">>, <<"CA", "ZZ", "NV">>, <<"OR", "ca", "ZZ">>}}

\* Boundary collections handed to filter_by_regions_gdf directly: selections
\* of the file's rows, in the file's CRS or another.
BoundaryFrames ==
    {to_crs(SelectStates(tl_2023_us_state, names), crs) :
        names \in {<<>>, <<"OR">>, <<"CA">>, <<"NV">>, <<"OR", "CA">>,
                   <<"CA", "NV">>, <<"OR", "NV">>, <<"OR", "CA", "NV">>},
        crs \in {"EPSG:4269", "EPSG:3857"}}

(***************************************************************************)
(* The calls.                                                              *)
(***************************************************************************)
InitExpand ==
    /\ pc = "expand"
    /\ region_names \in RegionNameInputs
    /\ result = EmptyBag
    /\ geodataframe = NoFrame
    /\ state_names = List(<<>>)
    /\ states_file = NoFrame
    /\ regions_gdf = NoFrame
    /\ filtered = NoFrame
    /\ refiltered = NoFrame
    /\ error = "none"

InitFilterByStates ==
    /\ pc = "filter_by_states"
    /\ region_names = List(<<>>)
    /\ result = EmptyBag
    /\ geodataframe \in FeatureFrames
    /\ state_names \in StateNameInputs
    /\ states_file = tl_2023_us_state
    /\ regions_gdf = NoFrame
    /\ filtered = NoFrame
    /\ refiltered = NoFrame
    /\ error = "none"

InitFilterByRegionsGdf ==
    /\ pc = "filter_by_regions_gdf"
    /\ region_names = List(<<>>)
    /\ result = EmptyBag
    /\ geodataframe \in FeatureFrames
    /\ state_names = List(<<>>)
    /\ states_file = NoFrame
    /\ regions_gdf \in BoundaryFrames
    /\ filtered = NoFrame
    /\ refiltered = NoFrame
    /\ error = "none"

Init == InitExpand \/ InitFilterByStates \/ InitFilterByRegionsGdf

\* get_state_abbreviations_from_region(region_names)
Expand ==
    /\ pc = "expand"
    /\ result' = get_state_abbreviations_from_region(region_names)
    /\ pc' = "expanded"
    /\ UNCHANGED <<region_names, geodataframe, state_names, states_file,
                   regions_gdf, filtered, refiltered, error>>

\* filter_by_states(geodataframe, state_names)
FilterByStates ==
    /\ pc = "filter_by_states"
    /\ LET r == filter_by_states(geodataframe, state_names, states_file) IN
           /\ filtered' = r.value
           /\ error' = r.error
    /\ pc' = "filtered_by_states"
    /\ UNCHANGED <<region_names, result, geodataframe, state_names, states_file,
                   regions_gdf, refiltered>>

\* filter_by_states(filtered, state_names): the filter applied to its result
RefilterByStates ==
    /\ pc = "filtered_by_states"
    /\ error = "none"
    /\ LET r == filter_by_states(filtered, state_names, states_file) IN
           /\ refiltered' = r.value
           /\ error' = r.error
    /\ pc' = "refiltered_by_states"
    /\ UNCHANGED <<region_names, result, geodataframe, state_names, states_file,
                   regions_gdf, filtered>>

\* filter_by_regions_gdf(geodataframe, regions_gdf)
FilterByRegionsGdf ==
    /\ pc = "filter_by_regions_gdf"
    /\ LET r == filter_by_regions_gdf(geodataframe, regions_gdf) IN
           /\ filtered' = r.value
           /\ error' = r.error
    /\ pc' = "filtered_by_regions_gdf"
    /\ UNCHANGED <<region_names, result, geodataframe, state_names, states_file,
                   regions_gdf, refiltered>>

\* filter_by_regions_gdf(filtered, regions_gdf)
RefilterByRegionsGdf ==
    /\ pc = "filtered_by_regions_gdf"
    /\ error = "none"
    /\ LET r == filter_by_regions_gdf(filtered, regions_gdf) IN
           /\ refiltered' = r.value
           /\ error' = r.error
    /\ pc' = "refiltered_by_regions_gdf"
    /\ UNCHANGED <<region_names, result, geodataframe, state_names, states_file,
                   regions_gdf, filtered>>

Next ==
    \/ Expand
    \/ FilterByStates
    \/ RefilterByStates
    \/ FilterByRegionsGdf
    \/ RefilterByRegionsGdf

Spec == Init /\ [][Next]_vars

(***************************************************************************)
(* Properties of the region expander.                                      *)
(***************************************************************************)
\* The table read independently of the lookup: two names are the same when
\* they are equal up to letter case.
SameName(a, b) == lower(a) = lower(b)

SubregionKeys == UNION {DOMAIN regions[m] : m \in DOMAIN regions}

\* Abbreviations of every subregion under the macro-regions called `name`.
AbbreviationsUnder(name) ==
    UNION {UNION {Range(regions[m][sub]) : sub \in DOMAIN regions[m]} :
              m \in {k \in DOMAIN regions : SameName(k, name)}}

\* Abbreviations listed for the subregions called `name`.
AbbreviationsListedFor(name) ==
    UNION {UNION {Range(regions[m][sub]) :
                     sub \in {k \in DOMAIN regions[m] : SameName(k, name)}} :
              m \in DOMAIN regions}

Expanded == pc = "expanded"
ExpandedOne(name) == Expanded /\ region_names = Str(name)

\* C1: for every macro-region name X of the table (Northeast, Midwest,
\* South, West) the expander returns exactly the deduplicated union of the
\* abbreviations of every subregion listed under X.
C1_MacroRegionUnion ==
    \A X \in MacroNames :
        ExpandedOne(X) => result = SetToBag(AbbreviationsUnder(X))

\* C2: ["Northeast", "South"] yields the union of the full sets of both
\* regions without duplicates: it holds "CT" and "TX" and not "ZZ".
C2_NortheastAndSouth ==
    (Expanded /\ region_names = List(<<"Northeast", "South">>)) =>
        /\ result = SetToBag(AbbreviationsUnder("Northeast")
                                \cup AbbreviationsUnder("South"))
        /\ BagIn("CT", result)
        /\ BagIn("TX", result)
        /\ ~BagIn("ZZ", result)

\* C3: matching is case-insensitive on both sides: a name equal up to case
\* to a macro-region key or a subregion key contributes that key's
\* abbreviations, however the name and the key are written.
C3_CaseInsensitive ==
    Expanded =>
        \A name \in Range(AsList(region_names)) :
            (AbbreviationsUnder(name) \cup AbbreviationsListedFor(name))
                \subseteq BagToSet(result)

\* C4: a name that is no macro-region key and no subregion key in any
\* letter case yields an empty result and no error; in a list it
\* contributes nothing, so every abbreviation returned comes from a name of
\* the list that the table holds.
C4_UnknownNamesContributeNothing ==
    Expanded =>
        /\ error = "none"
        /\ BagToSet(result) \subseteq
              UNION {AbbreviationsUnder(name) \cup AbbreviationsListedFor(name) :
                        name \in Range(AsList(region_names))}

C4_Witness ==
    /\ Expanded
    /\ region_names = List(<<"north", "pacific">>)
    /\ result = SetToBag({"AK", "CA", "HI", "OR", "WA"})

\* C5: for every subregion name S of the table the expander returns exactly
\* the abbreviations listed for S, nothing from its siblings or from other
\* macro-regions.
C5_SubregionOnly ==
    \A S \in SubregionKeys :
        ExpandedOne(S) =>
            \E m \in DOMAIN regions :
                /\ S \in DOMAIN regions[m]
                /\ result = SetToBag(Range(regions[m][S]))

C5_Witness ==
    /\ ExpandedOne("deep south")
    /\ result = SetToBag({"AL", "GA", "LA", "MS", "SC"})

(***************************************************************************)
(* Properties of the spatial filter.                                       *)
(***************************************************************************)
\* A geometry as the set of places it covers on the ground, whatever CRS
\* it is written in.
OnGround(geometry, crs) == {p - FalseEasting[crs] : p \in geometry}

Touches(feature, boundary, boundaries) ==
    OnGround(feature.geometry, geodataframe.crs)
        \cap OnGround(boundary.geometry, boundaries.crs) # {}

PostalCodes == {row.cols["STUSPS"] : row \in Range(states_file.rows)}

\* The boundaries a call filters by: the file's rows whose postal code was
\* asked for, or the collection handed in.
ByStates == pc \in {"filtered_by_states", "refiltered_by_states"}
ByRegionsGdf == pc \in {"filtered_by_regions_gdf", "refiltered_by_regions_gdf"}
Filtered == ByStates \/ ByRegionsGdf
Refiltered == pc \in {"refiltered_by_states", "refiltered_by_regions_gdf"}

Boundaries == IF ByStates THEN states_file ELSE regions_gdf

Selected ==
    IF ByStates
    THEN {j \in DOMAIN states_file.rows :
             states_file.rows[j].cols["STUSPS"] \in Range(AsList(state_names))}
    ELSE DOMAIN regions_gdf.rows

\* The selected boundaries feature row i touches.
TouchedBy(i) ==
    {j \in Selected : Touches(geodataframe.rows[i], Boundaries.rows[j], Boundaries)}

\* The value a feature's column c has in an output row: under c, or under
\* c_left when the join renamed it.
OriginalValue(row, c) ==
    IF (c \o "_left") \in DOMAIN row.cols THEN row.cols[c \o "_left"]
    ELSE IF c \in DOMAIN row.cols THEN row.cols[c]
    ELSE "missing"

\* An output row is a copy of a feature when it has the feature's index
\* label, its geometry and the values of all its columns.
IsCopyOf(row, feature) ==
    /\ row.index = feature.index
    /\ row.geometry = feature.geometry
    /\ \A c \in DOMAIN feature.cols : OriginalValue(row, c) = feature.cols[c]

Copies(frame, feature) ==
    Cardinality({k \in DOMAIN frame.rows : IsCopyOf(frame.rows[k], feature)})

Features == DOMAIN geodataframe.rows

\* C6: filter_by_states(features, [s]), s a postal code of the file,
\* returns exactly the features whose geometry intersects the boundary of
\* s, each once, with their attributes, and without an index_right column.
C6_SingleState ==
    (pc = "filtered_by_states"
        /\ Len(AsList(state_names)) = 1
        /\ AsList(state_names)[1] \in PostalCodes) =>
        /\ error = "none"
        /\ "index_right" \notin filtered.columns
        /\ filtered.crs = geodataframe.crs
        /\ \A i \in Features :
              Copies(filtered, geodataframe.rows[i]) =
                  IF TouchedBy(i) # {} THEN 1 ELSE 0
        /\ \A k \in DOMAIN filtered.rows :
              \E i \in Features : IsCopyOf(filtered.rows[k], geodataframe.rows[i])

C6_Witness ==
    /\ pc = "filtered_by_states"
    /\ state_names = List(<<"CA">>)
    /\ geodataframe.crs = "EPSG:3857"
    /\ Len(geodataframe.rows) = 2
    /\ TouchedBy(1) # {}
    /\ TouchedBy(2) = {}
    /\ Len(filtered.rows) = 1
    /\ IsCopyOf(filtered.rows[1], geodataframe.rows[1])

\* C7 as stated: filtering the result again by the same boundaries yields
\* the same rows with the same multiplicities.
C7_Idempotent ==
    Refiltered =>
        \A i \in Features :
            Copies(refiltered, geodataframe.rows[i]) =
                Copies(filtered, geodataframe.rows[i])

\* C7 as amended: the second pass keeps the features of the first, a
\* feature that touches k of the boundaries being there k times after one
\* pass and k * k times after two; the rows are the same, with the same
\* multiplicities, when no feature touches more than one boundary.
C7_RefilterSquares ==
    Refiltered =>
        /\ error = "none"
        /\ \A i \in Features :
              LET k == Cardinality(TouchedBy(i)) IN
              /\ Copies(filtered, geodataframe.rows[i]) = k
              /\ Copies(refiltered, geodataframe.rows[i]) = k * k
        /\ \A r \in DOMAIN refiltered.rows :
              \E i \in Features : IsCopyOf(refiltered.rows[r], geodataframe.rows[i])
        /\ (\A i \in Features : Cardinality(TouchedBy(i)) <= 1) =>
              \A i \in Features :
                  Copies(refiltered, geodataframe.rows[i]) =
                      Copies(filtered, geodataframe.rows[i])

C7_Witness ==
    /\ pc = "refiltered_by_states"
    /\ Len(geodataframe.rows) = 1
    /\ Cardinality(TouchedBy(1)) = 2
    /\ Len(filtered.rows) = 2
    /\ Len(refiltered.rows) = 4

\* C8: with an empty boundary selection (no state name, or an empty
\* boundary collection) the filter returns an empty collection and does
\* not fail, whatever the features.
C8_EmptySelection ==
    ((pc = "filtered_by_states" /\ AsList(state_names) = <<>>)
        \/ (pc = "filtered_by_regions_gdf" /\ regions_gdf.rows = <<>>)) =>
        /\ error = "none"
        /\ filtered.rows = <<>>
        /\ filtered.crs = geodataframe.crs

C8_Witness ==
    /\ pc = "filtered_by_states"
    /\ state_names = List(<<>>)
    /\ Len(geodataframe.rows) = 2
    /\ filtered.rows = <<>>
    /\ error = "none"

\* The names of a request that are postal codes of the file.
RECURSIVE KnownOnly(_)
KnownOnly(names) ==
    IF names = <<>> THEN <<>>
    ELSE IF Head(names) \in PostalCodes
         THEN <<Head(names)>> \o KnownOnly(Tail(names))
         ELSE KnownOnly(Tail(names))

\* C9: a requested abbreviation that is no postal code of the file is
\* dropped silently: the call returns what it returns for the known
\* abbreviations alone, and raises nothing.
C9_UnknownStatesDropped ==
    pc = "filtered_by_states" =>
        /\ error = "none"
        /\ filtered = filter_by_states(geodataframe,
                                       List(KnownOnly(AsList(state_names))),
                                       states_file).value

C9_Witness ==
    /\ pc = "filtered_by_states"
    /\ state_names = List(<<"CA", "ZZ", "NV">>)
    /\ Len(filtered.rows) = 3
    /\ error = "none"

\* C10: the join does not deduplicate: the output has one row per pair
\* (feature, boundary) whose geometries intersect, so a feature that
\* intersects k selected boundaries is there exactly k times.
C10_OneRowPerPair ==
    (Filtered /\ ~Refiltered) =>
        /\ Len(filtered.rows) =
              Cardinality({pair \in Features \X Selected : pair[2] \in TouchedBy(pair[1])})
        /\ \A i \in Features :
              Copies(filtered, geodataframe.rows[i]) = Cardinality(TouchedBy(i))

C10_Witness ==
    /\ pc = "filtered_by_regions_gdf"
    /\ Len(geodataframe.rows) = 1
    /\ Cardinality(TouchedBy(1)) = 3
    /\ Len(filtered.rows) = 3

====
